---- MODULE Spec2Model ----
(***************************************************************************)
(* Model of the options price-history store of src/src/data/               *)
(* options_history.py: the option_snapshots, weekly_averages and           *)
(* earnings_calendar tables and the operations of OptionsHistoryDB,        *)
(* EarningsCalendarManager and PriceComparisonChecker on them.             *)
(*                                                                         *)
(* Conventions.                                                            *)
(*  - Instants are minutes since a Monday 00:00; dates are days since that *)
(*    Monday.  Python's and SQLite's string order on ISO timestamps is the *)
(*    numeric order here.                                                  *)
(*  - Prices are integers (cents).  A mean is kept as the exact fraction   *)
(*    [num, den] and compared by cross-multiplication.                     *)
(*  - SQL NULL / Python None is NULL.  A time slot "HH:MM" is the number   *)
(*    HH*100 + MM.                                                         *)
(*  - A table is a set of rows.  The AUTOINCREMENT id is a row handle only *)
(*    and is not kept; the pass-through columns stock_price,               *)
(*    strike_distance, last_price, bid, volume and open_interest are       *)
(*    represented by stock_price alone.                                    *)
(***************************************************************************)
EXTENDS Integers, Sequences, FiniteSets, TLC

VARIABLES
    now,        \* datetime.now(), in minutes
    snapshots,  \* table option_snapshots
    averages,   \* table weekly_averages
    earnings,   \* table earnings_calendar
    signals_today,  \* TradingAlertSystem.signals_today: the signals sent, in order
    last        \* the operation that ran last: its name, arguments, result, and the
                \* table it worked on as it was before the call

vars == <<now, snapshots, averages, earnings, signals_today, last>>

----------------------------------------------------------------------------
(* Values *)

NULL == -1

MinutesPerDay == 24 * 60

DaysPerWeek == 6 + 1

HISTORY_WEEKS == 10

DateOf(ts) == ts \div MinutesPerDay

Weeks(n) == n * DaysPerWeek * MinutesPerDay

----------------------------------------------------------------------------
(* option_snapshots *)

SnapshotColumns ==
    {"timestamp", "symbol", "stock_price", "expiration_date", "dte",
     "option_type", "strike", "mid_price", "ask",
     "day_of_week", "time_slot", "ordinal_position"}

\* the columns declared NOT NULL that have no DEFAULT
SnapshotNotNull ==
    {"timestamp", "stock_price", "expiration_date", "dte", "option_type", "strike"}

\* UNIQUE (timestamp, symbol, expiration_date, strike, option_type)
SnapshotKey(r) ==
    <<r.timestamp, r.symbol, r.expiration_date, r.strike, r.option_type>>

\* None in a text column (symbols and option types are strings, all else is a number)
NullOf(c) == IF c \in {"symbol", "option_type"} THEN "None" ELSE NULL

\* snapshot.get(field) / snapshot.get('symbol', 'APP'): the tuple bound to the INSERT
SnapshotValues(snapshot) ==
    [c \in SnapshotColumns |->
        IF c \in DOMAIN snapshot THEN snapshot[c]
        ELSE IF c = "symbol" THEN "APP" ELSE NullOf(c)]

\* cursor.execute raises (IntegrityError: NOT NULL constraint failed)
ExecuteFails(snapshot) ==
    \E c \in SnapshotNotNull : c \in DOMAIN snapshot => snapshot[c] = NullOf(c)

\* a plain INSERT that ignores the UNIQUE constraint
InsertKeepingOld(table, row) == table \cup {row}

\* INSERT OR REPLACE INTO option_snapshots: the row holding the key is deleted first
InsertOrReplace(table, row) ==
    {r \in table : SnapshotKey(r) # SnapshotKey(row)} \cup {row}

\* a loop that the first execute that raises brings to an end
RECURSIVE ExecuteUntilFailure(_, _)
ExecuteUntilFailure(table, snaps) ==
    IF snaps = <<>> \/ ExecuteFails(Head(snaps)) THEN table
    ELSE ExecuteUntilFailure(InsertOrReplace(table, SnapshotValues(Head(snaps))),
                             Tail(snaps))

\* the table after executing the INSERT OR REPLACE of each element of a list in turn,
\* skipping the ones whose execute raises
RECURSIVE ExecuteAll(_, _)
ExecuteAll(table, snaps) ==
    IF snaps = <<>> THEN table
    ELSE LET s == Head(snaps)
         IN  ExecuteAll(IF ExecuteFails(s) THEN table
                        ELSE InsertOrReplace(table, SnapshotValues(s)),
                        Tail(snaps))

\* count += 1 for each execute that did not raise
RECURSIVE CountExecuted(_)
CountExecuted(snaps) ==
    IF snaps = <<>> THEN 0
    ELSE (IF ExecuteFails(Head(snaps)) THEN 0 ELSE 1) + CountExecuted(Tail(snaps))

\* store_snapshot: ioFails is a storage failure at execute or commit
StoreSnapshot(snapshot, ioFails) ==
    LET ok == ~ioFails /\ ~ExecuteFails(snapshot)
    IN  /\ snapshots' = IF ok THEN InsertOrReplace(snapshots, SnapshotValues(snapshot))
                        ELSE snapshots
        /\ last' = [op |-> "store_snapshot", snapshot |-> snapshot, result |-> ok,
                    before |-> snapshots]
        /\ UNCHANGED <<signals_today, now, averages, earnings>>

\* store_snapshots_batch: one transaction, committed after the loop; commitFails is
\* conn.commit() raising, after which close() discards the transaction
StoreSnapshotsBatch(snaps, commitFails) ==
    /\ snapshots' = IF snaps = <<>> \/ commitFails THEN snapshots
                    ELSE ExecuteAll(snapshots, snaps)
    /\ last' = [op |-> "store_snapshots_batch", snaps |-> snaps,
                committed |-> ~commitFails,
                result |-> CountExecuted(snaps), before |-> snapshots]
    /\ UNCHANGED <<signals_today, now, averages, earnings>>

----------------------------------------------------------------------------
(* earnings_calendar *)

\* date.weekday(): 0 = Monday .. 6 = Sunday
Weekday(d) == d % DaysPerWeek

\* calculate_earnings_week: (week_start, week_end)
CalculateEarningsWeek(earnings_date) ==
    LET days_since_monday == Weekday(earnings_date)
        week_start == earnings_date - days_since_monday
    IN  <<week_start, week_start + 4>>

\* UNIQUE (symbol, earnings_date)
EarningsKey(r) == <<r.symbol, r.earnings_date>>

\* INSERT INTO earnings_calendar on a table with no UNIQUE constraint
InsertEarnings(table, row) == table \cup {row}

\* INSERT OR REPLACE INTO earnings_calendar
InsertOrReplaceEarnings(table, row) ==
    {r \in table : EarningsKey(r) # EarningsKey(row)} \cup {row}

\* store_earnings_date(symbol, earnings_date, source)
StoreEarningsDateFrom(symbol, earnings_date, source, ioFails) ==
    LET week == CalculateEarningsWeek(earnings_date)
        row  == [symbol |-> symbol, earnings_date |-> earnings_date,
                 week_start |-> week[1], week_end |-> week[2],
                 source |-> source, created_at |-> now]
    IN  /\ earnings' = IF ioFails THEN earnings ELSE InsertOrReplaceEarnings(earnings, row)
        /\ last' = [op |-> "store_earnings_date", symbol |-> symbol,
                    earnings_date |-> earnings_date, result |-> ~ioFails]
        /\ UNCHANGED <<signals_today, now, snapshots, averages>>

\* store_earnings_date with the default source
StoreEarningsDate(symbol, earnings_date, ioFails) ==
    StoreEarningsDateFrom(symbol, earnings_date, "yfinance", ioFails)

\* fetch_earnings_dates_yfinance: the dates of the provider's calendar, [] when the
\* provider raises
FetchEarningsDates(answer) == IF answer.raises THEN <<>> ELSE answer.dates

\* the loop of refresh_earnings_calendar from the i-th date on: (table, stored_count);
\* failing is the set of positions whose store_earnings_date answers False
RECURSIVE StoreFetched(_, _, _, _, _, _)
StoreFetched(table, stored_count, symbol, dates, i, failing) ==
    IF i > Len(dates) THEN <<table, stored_count>>
    ELSE LET week == CalculateEarningsWeek(dates[i])
             row  == [symbol |-> symbol, earnings_date |-> dates[i],
                      week_start |-> week[1], week_end |-> week[2],
                      source |-> "yfinance", created_at |-> now]
         IN  IF i \in failing
             THEN StoreFetched(table, stored_count, symbol, dates, i + 1, failing)
             ELSE StoreFetched(InsertOrReplaceEarnings(table, row), stored_count + 1,
                               symbol, dates, i + 1, failing)

\* refresh_earnings_calendar: False without a write when no date was fetched, otherwise
\* one store_earnings_date per date and stored_count > 0
RefreshEarningsCalendar(symbol, answer, failing) ==
    LET dates == FetchEarningsDates(answer)
        done  == StoreFetched(earnings, 0, symbol, dates, 1, failing)
    IN  /\ earnings' = IF dates = <<>> THEN earnings ELSE done[1]
        /\ last' = [op |-> "refresh_earnings_calendar", symbol |-> symbol,
                    answer |-> answer, failing |-> failing,
                    stored_count |-> IF dates = <<>> THEN 0 ELSE done[2],
                    result |-> IF dates = <<>> THEN FALSE ELSE done[2] > 0,
                    before |-> earnings]
        /\ UNCHANGED <<signals_today, now, snapshots, averages>>

\* is_earnings_week: some row of the symbol has check_date BETWEEN week_start AND
\* week_end; False when the read fails
IsEarningsWeek(check_date, symbol, readFails) ==
    /\ ~readFails
    /\ \E r \in earnings :
          r.symbol = symbol /\ r.week_start <= check_date /\ check_date <= r.week_end

\* the rows whose week starts at or after the cutoff
GetEarningsWeeksStartingAfter(symbol, weeks_back, readFails) ==
    LET cutoff == DateOf(now) - weeks_back * DaysPerWeek
    IN  IF readFails THEN {}
        ELSE {<<r.week_start, r.week_end>> :
                r \in {x \in earnings : x.symbol = symbol /\ x.week_start >= cutoff}}

\* get_earnings_weeks: the (week_start, week_end) of the symbol's rows whose week_end is
\* not before today - weeks_back; [] when the read fails
GetEarningsWeeks(symbol, weeks_back, readFails) ==
    LET cutoff == DateOf(now) - weeks_back * DaysPerWeek
    IN  IF readFails THEN {}
        ELSE {<<r.week_start, r.week_end>> :
                r \in {x \in earnings : x.symbol = symbol /\ x.week_end >= cutoff}}

\* the conjunction of NOT (DATE(timestamp) BETWEEN week_start AND week_end)
EarningsExclusion(r, earnings_weeks) ==
    \A w \in earnings_weeks : ~(w[1] <= DateOf(r.timestamp) /\ DateOf(r.timestamp) <= w[2])

----------------------------------------------------------------------------
(* weekly_averages *)

\* UNIQUE (calculated_at, symbol, option_type, strike_distance, dte)
AverageKey(r) == <<r.calculated_at, r.symbol, r.option_type, r.strike_distance, r.dte>>

\* the bucket of a weekly_averages row
BucketOf(a) == <<a.day_of_week, a.time_slot, a.option_type, a.ordinal_position, a.dte>>

\* GROUP BY day_of_week, time_slot, option_type, ordinal_position, dte
GroupOf(r) == <<r.day_of_week, r.time_slot, r.option_type, r.ordinal_position, r.dte>>

\* the group as a tuple of numbers, in the order SQLite compares it
GroupOrder(g) == <<g[1], g[2], IF g[3] = "CALL" THEN 0 ELSE 1, g[4], g[5]>>

RECURSIVE TupleLess(_, _)
TupleLess(a, b) ==
    /\ a # <<>>
    /\ \/ Head(a) < Head(b)
       \/ Head(a) = Head(b) /\ TupleLess(Tail(a), Tail(b))

RECURSIVE Sum(_, _)
Sum(rows, column) ==
    IF rows = {} THEN 0
    ELSE LET r == CHOOSE x \in rows : TRUE
         IN  r[column] + Sum(rows \ {r}, column)

Min(S) == CHOOSE x \in S : \A y \in S : x <= y

Max(S) == CHOOSE x \in S : \A y \in S : x >= y

\* a NULL mean: the fraction with no denominator
NoAverage == [num |-> 0, den |-> 0]

\* AVG(column): the mean of the non-NULL values as an exact fraction, NULL if none
Avg(rows, column) ==
    LET present == {r \in rows : r[column] # NULL}
    IN  IF present = {} THEN NoAverage
        ELSE [num |-> Sum(present, column), den |-> Cardinality(present)]

\* the WHERE clause of the aggregation in calculate_and_store_averages
\* with no "AND ask > 0"
QualifiesAnyAsk(r, symbol, since, earnings_weeks) ==
    /\ r.symbol = symbol
    /\ r.timestamp >= since
    /\ r.ask # NULL
    /\ r.day_of_week # NULL
    /\ r.time_slot # NULL
    /\ r.ordinal_position # NULL
    /\ EarningsExclusion(r, earnings_weeks)

\* with no earnings exclusion
QualifiesAnyWeek(r, symbol, since, earnings_weeks) ==
    /\ r.symbol = symbol
    /\ r.timestamp >= since
    /\ r.ask # NULL
    /\ r.ask > 0
    /\ r.day_of_week # NULL
    /\ r.time_slot # NULL
    /\ r.ordinal_position # NULL

Qualifies(r, symbol, since, earnings_weeks) ==
    /\ r.symbol = symbol
    /\ r.timestamp >= since
    /\ r.ask # NULL
    /\ r.ask > 0
    /\ r.day_of_week # NULL
    /\ r.time_slot # NULL
    /\ r.ordinal_position # NULL
    /\ EarningsExclusion(r, earnings_weeks)

\* one row of the aggregation's result, made into the values of the INSERT
AverageRow(calculated_at, symbol, g, rows) ==
    [calculated_at |-> calculated_at, symbol |-> symbol,
     day_of_week |-> g[1], time_slot |-> g[2], option_type |-> g[3],
     ordinal_position |-> g[4], dte |-> g[5],
     avg_mid_price |-> Avg(rows, "mid_price"),
     avg_ask_price |-> Avg(rows, "ask"),
     sample_count |-> Cardinality(rows),
     min_price |-> Min({r.ask : r \in rows}),
     max_price |-> Max({r.ask : r \in rows}),
     strike_distance |-> 0]

\* the groups of the result in the order the aggregation returns them
RECURSIVE SortedGroups(_)
SortedGroups(groups) ==
    IF groups = {} THEN <<>>
    ELSE LET first == CHOOSE g \in groups :
                        \A h \in groups \ {g} : TupleLess(GroupOrder(g), GroupOrder(h))
         IN  <<first>> \o SortedGroups(groups \ {first})

\* the result of the aggregation: one row per group of qualifying snapshots
AggregatedRows(symbol, calculated_at, since, earnings_weeks) ==
    LET qualifying == {r \in snapshots : Qualifies(r, symbol, since, earnings_weeks)}
        groups == SortedGroups({GroupOf(r) : r \in qualifying})
    IN  [i \in 1..Len(groups) |->
            AverageRow(calculated_at, symbol, groups[i],
                       {r \in qualifying : GroupOf(r) = groups[i]})]

\* INSERT OR REPLACE INTO weekly_averages
InsertOrReplaceAverage(table, row) ==
    {r \in table : AverageKey(r) # AverageKey(row)} \cup {row}

RECURSIVE InsertAverages(_, _)
InsertAverages(table, rows) ==
    IF rows = <<>> THEN table
    ELSE InsertAverages(InsertOrReplaceAverage(table, Head(rows)), Tail(rows))

\* calculate_and_store_averages.  An INSERT raises when a group's AVG(mid_price) is NULL
\* (avg_mid_price is NOT NULL); any exception discards the transaction.
CalculateAndStoreAverages(symbol, earningsReadFails, ioFails) ==
    LET six_weeks_ago == now - Weeks(HISTORY_WEEKS)
        calculated_at == now
        earnings_weeks == GetEarningsWeeks(symbol, HISTORY_WEEKS, earningsReadFails)
        rows == AggregatedRows(symbol, calculated_at, six_weeks_ago, earnings_weeks)
        ok == ~ioFails /\ \A i \in 1..Len(rows) : rows[i].avg_mid_price # NoAverage
    IN  /\ averages' = IF ok THEN InsertAverages(averages, rows) ELSE averages
        /\ last' = [op |-> "calculate_and_store_averages", symbol |-> symbol,
                    calculated_at |-> calculated_at, result |-> ok,
                    earnings_read |-> ~earningsReadFails, before |-> averages]
        /\ UNCHANGED <<signals_today, now, snapshots, earnings>>

----------------------------------------------------------------------------
(* cleanup_old_data *)

KeptRuns == 2

\* ORDER BY calculated_at DESC LIMIT n, over distinct values
RECURSIVE Latest(_, _)
Latest(values, n) ==
    IF n = 0 \/ values = {} THEN {}
    ELSE {Max(values)} \cup Latest(values \ {Max(values)}, n - 1)

\* DELETE FROM option_snapshots WHERE timestamp <= cutoff
KeepAfter(table, cutoff) == {r \in table : ~(r.timestamp <= cutoff)}

\* DELETE FROM option_snapshots WHERE timestamp < cutoff
KeepSince(table, cutoff) == {r \in table : ~(r.timestamp < cutoff)}

\* a cleanup that keeps every calculation
KeepAllAverages(table) == table

\* DELETE FROM weekly_averages WHERE calculated_at NOT IN (the last two)
KeepLatestAverages(table) ==
    {a \in table : a.calculated_at \in Latest({r.calculated_at : r \in table}, KeptRuns)}

\* cleanup_old_data: both deletes in one transaction; ioFails is a statement or the
\* commit raising, which discards both and returns 0
CleanupOldData(weeks, ioFails) ==
    LET cutoff == now - Weeks(weeks)
        kept == KeepSince(snapshots, cutoff)
        deleted == Cardinality(snapshots) - Cardinality(kept)
    IN  /\ snapshots' = IF ioFails THEN snapshots ELSE kept
        /\ averages' = IF ioFails THEN averages ELSE KeepLatestAverages(averages)
        /\ last' = [op |-> "cleanup_old_data", weeks |-> weeks, ok |-> ~ioFails,
                    result |-> IF ioFails THEN 0 ELSE deleted,
                    before |-> <<snapshots, averages>>]
        /\ UNCHANGED <<signals_today, now, earnings>>

----------------------------------------------------------------------------
(* Migrations *)

OrdinalLimit == 10

\* strftime('%w', timestamp) as it is: 0 for Sunday
SqlDayOfWeekSundayFirst(ts) == (DateOf(ts) + 1) % DaysPerWeek

\* CAST((CAST(strftime('%w', timestamp) AS INTEGER) + 6) % 7 AS INTEGER), where
\* strftime('%w') is 0 for Sunday
SqlDayOfWeek(ts) == (((DateOf(ts) + 1) % DaysPerWeek) + 6) % 7

\* printf('%02d:%02d', strftime('%H'), (strftime('%M') / 5) * 5)
SqlTimeSlot(ts) ==
    LET minute_of_day == ts % MinutesPerDay
    IN  (minute_of_day \div 60) * 100 + ((minute_of_day % 60) \div 5) * 5

\* WHERE day_of_week IS NULL OR time_slot IS NULL
LacksTimeMetadata(r) == r.day_of_week = NULL \/ r.time_slot = NULL

\* the table after migrate_time_metadata's UPDATE
TimeMigrated(table) ==
    {IF LacksTimeMetadata(r)
     THEN [r EXCEPT !.day_of_week = SqlDayOfWeek(r.timestamp),
                    !.time_slot = SqlTimeSlot(r.timestamp)]
     ELSE r : r \in table}

\* cursor.rowcount of that UPDATE
TimeUpdated(table) == Cardinality({r \in table : LacksTimeMetadata(r)})

\* SELECT DISTINCT timestamp, symbol, option_type ... WHERE ordinal_position IS NULL
NullOrdinalGroups(table) ==
    {<<r.timestamp, r.symbol, r.option_type>> :
        r \in {x \in table : x.ordinal_position = NULL}}

RowsOfGroup(table, group) ==
    {r \in table : <<r.timestamp, r.symbol, r.option_type>> = group}

\* ORDER BY strike ASC for CALL, DESC otherwise (rows of one group with the same strike,
\* which differ in expiration_date, come in the order the engine finds them)
RECURSIVE OrderedByStrike(_, _)
OrderedByStrike(rows, ascending) ==
    IF rows = {} THEN <<>>
    ELSE LET first == CHOOSE r \in rows :
                        \A x \in rows : IF ascending THEN r.strike <= x.strike
                                        ELSE r.strike >= x.strike
         IN  <<first>> \o OrderedByStrike(rows \ {first}, ascending)

\* the loop with no test on pos
PositionedAll(table, group) ==
    LET rows == OrderedByStrike(RowsOfGroup(table, group), group[3] = "CALL")
    IN  {<<rows[pos], pos>> : pos \in 1..Len(rows)}

\* the rows of a group that receive a position, with the position: the loop over
\* enumerate(rows, start=1) with its test pos <= 10
Positioned(table, group) ==
    LET rows == OrderedByStrike(RowsOfGroup(table, group), group[3] = "CALL")
    IN  {<<rows[pos], pos>> : pos \in {p \in 1..Len(rows) : p <= OrdinalLimit}}

\* all the UPDATE ... SET ordinal_position = ? WHERE id = ? of one run
OrdinalUpdates(table) ==
    UNION {Positioned(table, group) : group \in NullOrdinalGroups(table)}

\* the table after migrate_ordinal_positions
OrdinalsMigrated(table) ==
    LET updates == OrdinalUpdates(table)
    IN  {IF \E u \in updates : u[1] = r
         THEN [r EXCEPT !.ordinal_position = (CHOOSE u \in updates : u[1] = r)[2]]
         ELSE r : r \in table}

\* updated: one for every UPDATE executed
OrdinalUpdated(table) == Cardinality(OrdinalUpdates(table))

\* OptionsHistoryDB(): after _init_db, migrate_time_metadata and then
\* migrate_ordinal_positions, each in its own transaction.  timeFails / ordinalFails is
\* the migration raising, which discards its transaction and makes it return 0.
Startup(timeFails, ordinalFails) ==
    LET afterTime == IF timeFails THEN snapshots ELSE TimeMigrated(snapshots)
        afterOrdinal == IF ordinalFails THEN afterTime ELSE OrdinalsMigrated(afterTime)
    IN  /\ snapshots' = afterOrdinal
        /\ last' = [op |-> "startup",
                    ok |-> ~timeFails /\ ~ordinalFails,
                    time_updated |-> IF timeFails THEN 0 ELSE TimeUpdated(snapshots),
                    ordinal_updated |-> IF ordinalFails THEN 0
                                        ELSE OrdinalUpdated(afterTime),
                    again |-> (last.op = "startup" /\ last.ok),
                    before |-> snapshots]
        /\ UNCHANGED <<signals_today, now, averages, earnings>>

----------------------------------------------------------------------------
(* get_average_price and PriceComparisonChecker *)

PRICE_ELEVATION_THRESHOLD == 34

PRICE_ELEVATION_BOOST == 30

\* Python truthiness of a mean: neither None nor 0.0
Truthy(avg) == avg.den # 0 /\ avg.num # 0

\* the precomputed rows of a bucket
AveragesOf(symbol, bucket) ==
    {a \in averages : a.symbol = symbol /\ BucketOf(a) = bucket}

\* ORDER BY calculated_at ASC LIMIT 1
OldestAverage(rows) == CHOOSE a \in rows : \A b \in rows : a.calculated_at <= b.calculated_at

\* ORDER BY calculated_at DESC LIMIT 1
LatestAverage(rows) == CHOOSE a \in rows : \A b \in rows : a.calculated_at >= b.calculated_at

\* the ad-hoc aggregation with no "AND ordinal_position = ?"
AdHocAverageAnyOrdinal(symbol, bucket, earningsReadFails) ==
    LET earnings_weeks == GetEarningsWeeks(symbol, HISTORY_WEEKS, earningsReadFails)
        six_weeks_ago == now - Weeks(HISTORY_WEEKS)
    IN  Avg({r \in snapshots :
                /\ r.symbol = symbol
                /\ r.day_of_week = bucket[1] /\ r.time_slot = bucket[2]
                /\ r.option_type = bucket[3] /\ r.dte = bucket[5]
                /\ r.timestamp >= six_weeks_ago
                /\ r.ask # NULL /\ r.ask > 0
                /\ EarningsExclusion(r, earnings_weeks)}, "ask")

\* the ad-hoc aggregation with no earnings exclusion
AdHocAverageAnyWeek(symbol, bucket, earningsReadFails) ==
    LET six_weeks_ago == now - Weeks(HISTORY_WEEKS)
    IN  Avg({r \in snapshots :
                /\ r.symbol = symbol
                /\ GroupOf(r) = bucket
                /\ r.timestamp >= six_weeks_ago
                /\ r.ask # NULL /\ r.ask > 0}, "ask")

\* the ad-hoc aggregation over the raw snapshots of the bucket
AdHocAverage(symbol, bucket, earningsReadFails) ==
    LET earnings_weeks == GetEarningsWeeks(symbol, HISTORY_WEEKS, earningsReadFails)
        six_weeks_ago == now - Weeks(HISTORY_WEEKS)
    IN  Avg({r \in snapshots :
                /\ r.symbol = symbol
                /\ GroupOf(r) = bucket
                /\ r.timestamp >= six_weeks_ago
                /\ r.ask # NULL /\ r.ask > 0
                /\ EarningsExclusion(r, earnings_weeks)}, "ask")

\* get_average_price.  fault is "connect" when _get_connection raises (outside the try:
\* the exception leaves the function), "query" when a statement raises (caught: None),
\* "earnings" when only the calendar read fails (get_earnings_weeks answers []).
\* The answer is [raised, value], value a fraction or NoAverage for None.
GetAveragePrice(option_type, ordinal_position, dte, day_of_week, time_slot, symbol, fault) ==
    LET bucket == <<day_of_week, time_slot, option_type, ordinal_position, dte>>
        rows == AveragesOf(symbol, bucket)
        row == LatestAverage(rows)
        adhoc == AdHocAverage(symbol, bucket, fault = "earnings")
    IN  IF fault = "connect" THEN [raised |-> TRUE, value |-> NoAverage]
        ELSE IF fault = "query" THEN [raised |-> FALSE, value |-> NoAverage]
        ELSE IF rows # {} /\ Truthy(row.avg_ask_price)
             THEN [raised |-> FALSE, value |-> row.avg_ask_price]
        ELSE IF rows # {} /\ Truthy(row.avg_mid_price)
             THEN [raised |-> FALSE, value |-> row.avg_mid_price]
        ELSE IF Truthy(adhoc) THEN [raised |-> FALSE, value |-> adhoc]
        ELSE [raised |-> FALSE, value |-> NoAverage]

\* the dict returned when no average is available
NoHistoryResult(current_price, day_of_week, time_slot, ordinal_position) ==
    [is_elevated |-> FALSE, current_price |-> current_price, avg_price |-> NoAverage,
     elevation_pct |-> NoAverage, confidence_boost |-> 0, has_historical_data |-> FALSE,
     day_of_week |-> day_of_week, time_slot |-> time_slot,
     ordinal_position |-> ordinal_position, raised |-> FALSE]

\* the comparison with > in place of >=
AboveThreshold(pct) == pct.num * 100 > PRICE_ELEVATION_THRESHOLD * pct.den

\* elevation_pct >= THRESHOLD_PERCENTAGE, for elevation_pct a fraction with den > 0 and
\* the threshold in hundredths
AtLeastThreshold(pct) == pct.num * 100 >= PRICE_ELEVATION_THRESHOLD * pct.den

\* (current_price - avg_price) / avg_price
ElevationPct(current_price, avg) ==
    [num |-> current_price * avg.den - avg.num, den |-> avg.num]

\* the comparison with no "if current_price <= 0" return
ComparePriceUnguarded(current_price, avg_price, day_of_week, time_slot, ordinal_position) ==
    LET elevation_pct == ElevationPct(current_price, avg_price)
        is_elevated == AtLeastThreshold(elevation_pct)
        none == NoHistoryResult(current_price, day_of_week, time_slot, ordinal_position)
    IN  IF avg_price = NoAverage \/ avg_price.num <= 0 THEN none
        ELSE [none EXCEPT !.is_elevated = is_elevated,
                          !.avg_price = avg_price,
                          !.elevation_pct = elevation_pct,
                          !.confidence_boost =
                              IF is_elevated THEN PRICE_ELEVATION_BOOST ELSE 0,
                          !.has_historical_data = TRUE]

\* check_price_elevation from the test of avg_price on (the three return statements
\* of the try block)
ComparePrice(current_price, avg_price, day_of_week, time_slot, ordinal_position) ==
    LET elevation_pct == ElevationPct(current_price, avg_price)
        is_elevated == AtLeastThreshold(elevation_pct)
        none == NoHistoryResult(current_price, day_of_week, time_slot, ordinal_position)
    IN  IF avg_price = NoAverage \/ avg_price.num <= 0 THEN none
        ELSE IF current_price <= 0
             THEN [none EXCEPT !.avg_price = avg_price, !.has_historical_data = TRUE]
        ELSE [none EXCEPT !.is_elevated = is_elevated,
                          !.avg_price = avg_price,
                          !.elevation_pct = elevation_pct,
                          !.confidence_boost =
                              IF is_elevated THEN PRICE_ELEVATION_BOOST ELSE 0,
                          !.has_historical_data = TRUE]

\* check_price_elevation with no except clause: the exception reaches the caller
CheckPriceElevationUncaught(current_price, option_type, ordinal_position, dte, day_of_week, time_slot, symbol, fault) ==
    LET got == GetAveragePrice(option_type, ordinal_position, dte,
                               day_of_week, time_slot, symbol, fault)
    IN  IF got.raised
        THEN [NoHistoryResult(current_price, day_of_week, time_slot, ordinal_position)
                EXCEPT !.raised = TRUE]
        ELSE ComparePrice(current_price, got.value, day_of_week, time_slot,
                          ordinal_position)

\* check_price_elevation, with day_of_week and time_slot given.  Money is in cents,
\* confidence_boost in hundredths; a None avg_price or elevation_pct is NoAverage;
\* raised tells whether an exception left the function.
CheckPriceElevation(current_price, option_type, ordinal_position, dte, day_of_week, time_slot, symbol, fault) ==
    LET got == GetAveragePrice(option_type, ordinal_position, dte,
                               day_of_week, time_slot, symbol, fault)
    IN  IF got.raised
        THEN NoHistoryResult(current_price, day_of_week, time_slot, ordinal_position)
        ELSE ComparePrice(current_price, got.value, day_of_week, time_slot,
                          ordinal_position)

\* a call of check_price_elevation; it only reads the tables
CheckElevation(current_price, option_type, ordinal_position, dte, day_of_week, time_slot, symbol, fault) ==
    /\ last' = [op |-> "check_price_elevation",
                current_price |-> current_price, symbol |-> symbol,
                bucket |-> <<day_of_week, time_slot, option_type, ordinal_position, dte>>,
                fault |-> fault,
                result |-> CheckPriceElevation(current_price, option_type,
                                ordinal_position, dte, day_of_week, time_slot,
                                symbol, fault),
                before |-> <<snapshots, averages, earnings>>]
    /\ UNCHANGED <<signals_today, now, snapshots, averages, earnings>>

----------------------------------------------------------------------------
(* OptionsDataCollector *)

NearestOtm == 10

\* f"{hour:02d}:{(minute // 5) * 5:02d}"
TimeSlot(ts) ==
    LET minute_of_day == ts % MinutesPerDay
    IN  (minute_of_day \div 60) * 100 + ((minute_of_day % 60) \div 5) * 5

Reverse(s) == [i \in 1..Len(s) |-> s[Len(s) + 1 - i]]

\* the whole frame, whatever n
AllRows(s, n) == s

\* DataFrame.head(n) and DataFrame.tail(n)
HeadRows(s, n) == SubSeq(s, 1, IF Len(s) < n THEN Len(s) ELSE n)

TailRows(s, n) == SubSeq(s, IF Len(s) < n THEN 1 ELSE Len(s) - n + 1, Len(s))

\* the dictionary built for one row of the chain
CollectedSnapshot(symbol, stock_price, option_type, row, ordinal_pos) ==
    LET today == DateOf(now)
        this_friday == today + ((4 - Weekday(today)) % DaysPerWeek)
    IN  [timestamp |-> now, symbol |-> symbol, stock_price |-> stock_price,
         expiration_date |-> this_friday, dte |-> this_friday - today,
         option_type |-> option_type, strike |-> row.strike,
         mid_price |-> IF row.bid # 0 /\ row.ask # 0 THEN (row.bid + row.ask) \div 2
                       ELSE row.lastPrice,
         ask |-> row.ask,
         day_of_week |-> Weekday(today), time_slot |-> TimeSlot(now),
         ordinal_position |-> ordinal_pos]

\* the batch collect_snapshot builds from the chain of this Friday's expiration
CollectedBatch(symbol, stock_price, calls, puts) ==
    LET otm_calls == HeadRows(SelectSeq(calls, LAMBDA q : q.strike > stock_price), NearestOtm)
        otm_puts  == Reverse(TailRows(SelectSeq(puts, LAMBDA q : q.strike < stock_price),
                                      NearestOtm))
    IN  [i \in 1..Len(otm_calls) |->
            CollectedSnapshot(symbol, stock_price, "CALL", otm_calls[i], i)]
        \o
        [i \in 1..Len(otm_puts) |->
            CollectedSnapshot(symbol, stock_price, "PUT", otm_puts[i], i)]

\* collect_snapshot: nothing is stored without a price or without an expiration on this
\* Friday; otherwise the batch goes to store_snapshots_batch
CollectSnapshot(symbol, stock_price, calls, puts, hasFriday, commitFails) ==
    LET batch == IF stock_price = 0 \/ ~hasFriday THEN <<>>
                 ELSE CollectedBatch(symbol, stock_price, calls, puts)
    IN  /\ snapshots' = IF batch = <<>> \/ commitFails THEN snapshots
                        ELSE ExecuteAll(snapshots, batch)
        /\ last' = [op |-> "collect_snapshot", stock_price |-> stock_price,
                    calls |-> calls, puts |-> puts, result |-> CountExecuted(batch)]
        /\ UNCHANGED <<signals_today, now, averages, earnings>>

----------------------------------------------------------------------------
(* PriceComparisonChecker.evaluate_strikes *)

\* strike_data.get('ask') or strike_data.get('last_price') or 0
OptionPrice(strike_data) ==
    LET ask == IF "ask" \in DOMAIN strike_data THEN strike_data.ask ELSE NULL
        last_price == IF "last_price" \in DOMAIN strike_data THEN strike_data.last_price
                      ELSE NULL
    IN  IF ask # NULL /\ ask # 0 THEN ask
        ELSE IF last_price # NULL /\ last_price # 0 THEN last_price
        ELSE 0

\* the boosts of the comparisons added together
AddBoost(max_boost, comparison) == max_boost + comparison.confidence_boost

\* if comparison.get('confidence_boost', 0) > max_boost: max_boost = ...
TrackMaxBoost(max_boost, comparison) ==
    IF comparison.confidence_boost > max_boost THEN comparison.confidence_boost
    ELSE max_boost

\* the loop of evaluate_strikes over enumerate(strikes, start=1), from position
\* ordinal_pos on, with the enhanced list and max_boost so far
RECURSIVE EvaluateFrom(_, _, _, _, _, _, _, _, _)
EvaluateFrom(strikes, ordinal_pos, enhanced, max_boost, option_type, dte, day_of_week, time_slot, fault) ==
    IF ordinal_pos > Len(strikes)
    THEN [enhanced |-> enhanced, max_boost |-> max_boost]
    ELSE LET comparison ==
                 CheckPriceElevation(OptionPrice(strikes[ordinal_pos]), option_type,
                                     ordinal_pos, dte, day_of_week, time_slot, "APP",
                                     fault)
             enhanced_strike == [strike_data |-> strikes[ordinal_pos],
                                 price_comparison |-> comparison,
                                 ordinal_position |-> ordinal_pos]
         IN  EvaluateFrom(strikes, ordinal_pos + 1, Append(enhanced, enhanced_strike),
                          TrackMaxBoost(max_boost, comparison), option_type, dte,
                          day_of_week, time_slot, fault)

\* the caller's dicts had the loop written into strike_data itself
StrikesEnhancedInPlace(strikes) ==
    [i \in 1..Len(strikes) |->
        [k \in DOMAIN strikes[i] \cup {"ordinal_position"} |->
            IF k = "ordinal_position" THEN i ELSE strikes[i][k]]]

\* the caller's dicts after the call: the loop writes into strike_data.copy()
StrikesAfterCall(strikes) == strikes

\* evaluate_strikes for the default symbol: the bucket is that of the current instant,
\* the position of a strike is its place in the list; fault is what happens to the
\* store reads of the comparisons.  It only reads the tables.
EvaluateStrikes(strikes, option_type, dte, fault) ==
    /\ last' = [op |-> "evaluate_strikes", strikes |-> strikes,
                option_type |-> option_type, dte |-> dte, fault |-> fault,
                strikes_after |-> StrikesAfterCall(strikes),
                result |-> IF strikes = <<>>
                           THEN [enhanced |-> strikes, max_boost |-> 0]
                           ELSE EvaluateFrom(strikes, 1, <<>>, 0, option_type, dte,
                                             Weekday(DateOf(now)), TimeSlot(now), fault)]
    /\ UNCHANGED <<signals_today, now, snapshots, averages, earnings>>

----------------------------------------------------------------------------
(* Specification of the snapshot writes: any sequence of *)
(* store_snapshot and store_snapshots_batch calls on an empty store.      *)

MaxBatch == 2

WriteTime == Weeks(1) + 3 * MinutesPerDay + 9 * 60 + 35

\* a complete dictionary as the collector builds it
WriteInput(strike, ask) ==
    [timestamp |-> WriteTime, symbol |-> "APP", stock_price |-> 100,
     expiration_date |-> DateOf(WriteTime) + 1, dte |-> 1, option_type |-> "CALL",
     strike |-> strike, mid_price |-> ask, ask |-> ask,
     day_of_week |-> 3, time_slot |-> 935, ordinal_position |-> strike - 100]

\* the dictionaries handed to the store: two values for one key, a second key, the first
\* key again without the symbol entry, and one without a strike
WriteInputs ==
    { WriteInput(101, 1), WriteInput(101, 2), WriteInput(102, 1),
      [c \in DOMAIN WriteInput(101, 3) \ {"symbol"} |-> WriteInput(101, 3)[c]],
      [c \in DOMAIN WriteInput(101, 1) \ {"strike"} |-> WriteInput(101, 1)[c]] }

RECURSIVE SeqsUpTo(_, _)
SeqsUpTo(S, n) ==
    IF n = 0 THEN {<<>>}
    ELSE LET shorter == SeqsUpTo(S, n - 1)
         IN  shorter \cup {Append(q, x) : q \in shorter, x \in S}

NoOp == [op |-> "none"]

InitEmpty ==
    /\ now = WriteTime
    /\ snapshots = {}
    /\ averages = {}
    /\ earnings = {}
    /\ signals_today = <<>>
    /\ last = NoOp

PutSnapshot == \E s \in WriteInputs, f \in BOOLEAN : StoreSnapshot(s, f)

PutBatch ==
    \E q \in SeqsUpTo(WriteInputs, MaxBatch), f \in BOOLEAN : StoreSnapshotsBatch(q, f)

NextWrite == PutSnapshot \/ PutBatch

SpecWrite == InitEmpty /\ [][NextWrite]_vars

----------------------------------------------------------------------------
(* C1 *)

\* the last element of a list that was executed with the given key, or NULL
RECURSIVE LastWritten(_, _)
LastWritten(snaps, key) ==
    IF snaps = <<>> THEN NULL
    ELSE LET s == snaps[Len(snaps)]
         IN  IF ~ExecuteFails(s) /\ SnapshotKey(SnapshotValues(s)) = key
             THEN Len(snaps)
             ELSE LastWritten(SubSeq(snaps, 1, Len(snaps) - 1), key)

RowsWithKey(table, key) == {r \in table : SnapshotKey(r) = key}

\* the writes the step that produced last' made durable, in order
DurableWrites(l) ==
    IF l.op = "store_snapshot" THEN (IF l.result THEN <<l.snapshot>> ELSE <<>>)
    ELSE IF l.op = "store_snapshots_batch" THEN (IF l.committed THEN l.snaps ELSE <<>>)
    ELSE <<>>

\* the snapshot store never holds two rows with the same natural key
\* (timestamp, symbol, expiration_date, strike, option_type).
C1_UniqueKey ==
    \A r1, r2 \in snapshots : SnapshotKey(r1) = SnapshotKey(r2) => r1 = r2

\* C1: after every put_snapshot / put_batch the store holds at most one row per natural
\* key; for a key the call wrote, that row carries exactly the values of the call's most
\* recent successful write with that key, and for every other key the rows are the ones
\* held before the call (so the row of a key is always its most recent successful write).
C1_LastWriteWins ==
    /\ C1_UniqueKey
    /\ last.op \in {"store_snapshot", "store_snapshots_batch"} =>
          \A key \in {SnapshotKey(r) : r \in snapshots \cup last.before} :
             LET w == DurableWrites(last)
                 i == LastWritten(w, key)
             IN  IF i = NULL
                 THEN RowsWithKey(snapshots, key) = RowsWithKey(last.before, key)
                 ELSE RowsWithKey(snapshots, key) = {SnapshotValues(w[i])}

\* a key written twice with different values holds the second write's values
C1_Witness ==
    /\ last.op = "store_snapshots_batch"
    /\ last.committed
    /\ Len(last.snaps) = 2
    /\ SnapshotKey(SnapshotValues(last.snaps[1])) = SnapshotKey(SnapshotValues(last.snaps[2]))
    /\ last.snaps[1].ask # last.snaps[2].ask
    /\ \E r \in snapshots : r.ask = last.snaps[2].ask /\ r.strike = last.snaps[2].strike

----------------------------------------------------------------------------
(* C15 *)

JustBatched == last.op = "store_snapshots_batch" /\ last.committed

\* the positions of the batch whose execute did not raise
Executed(snaps) == {i \in 1..Len(snaps) : ~ExecuteFails(snaps[i])}

\* C15: when writing one row of a batch fails, the rows before it are kept and the rows
\* after it are still written: every row whose write did not fail is in the store (as
\* the batch's last write of its key), and the call returns the number of such rows.
C15_BestEffortBatch ==
    JustBatched =>
        /\ last.result = Cardinality(Executed(last.snaps))
        /\ \A i \in Executed(last.snaps) :
              LET key == SnapshotKey(SnapshotValues(last.snaps[i]))
              IN  SnapshotValues(last.snaps[LastWritten(last.snaps, key)]) \in snapshots

\* a batch whose first row fails and whose second row is stored
C15_Witness ==
    /\ JustBatched
    /\ Len(last.snaps) = 2
    /\ ExecuteFails(last.snaps[1])
    /\ ~ExecuteFails(last.snaps[2])
    /\ SnapshotValues(last.snaps[2]) \in snapshots
    /\ SnapshotValues(last.snaps[2]) \notin last.before
    /\ last.result = 1

----------------------------------------------------------------------------
(* Specification of the rolling averages: the collector captures chains   *)
(* at successive instants, legacy rows are written, earnings dates are    *)
(* stored and the averages are recomputed.  Storage does not fail here.   *)

\* the instants at which something runs: a Thursday 09:35, the same time ten weeks later
\* (when the first is exactly at the edge of the lookback window), and one minute after
\* that (when the first has left the window)
Clock ==
    <<WriteTime, WriteTime + Weeks(HISTORY_WEEKS), WriteTime + Weeks(HISTORY_WEEKS) + 1>>

Quote(strike, ask) == [strike |-> strike, bid |-> ask, ask |-> ask, lastPrice |-> 100]

\* the chains the provider answers with: (calls, puts), in strike order
Chains ==
    { <<  <<Quote(99, 900), Quote(101, 100), Quote(102, 100)>>,
          <<Quote(99, 100), Quote(101, 900)>>  >>,
      <<  <<Quote(101, 200), Quote(102, 0)>>,  <<>>  >> }

\* rows written through store_snapshot directly: one without an ordinal position, and
\* one without a mid price
RawInputs ==
    { [c \in DOMAIN WriteInput(103, 300) \ {"ordinal_position"} |->
          IF c = "timestamp" THEN now ELSE WriteInput(103, 300)[c]],
      [c \in DOMAIN WriteInput(104, 100) \ {"mid_price"} |->
          IF c = "timestamp" THEN now ELSE WriteInput(104, 100)[c]] }

\* SELECT DISTINCT calculated_at FROM weekly_averages
Runs == {r.calculated_at : r \in averages}

Tick ==
    /\ \E i \in 1..(Len(Clock) - 1) : now = Clock[i] /\ now' = Clock[i + 1]
    /\ last' = NoOp
    /\ UNCHANGED <<signals_today, snapshots, averages, earnings>>

Collect ==
    /\ \A r \in snapshots : r.timestamp # now
    /\ \E chain \in Chains : CollectSnapshot("APP", 100, chain[1], chain[2], TRUE, FALSE)

PutRaw ==
    /\ \A r \in snapshots : r.timestamp # now
    /\ \E s \in RawInputs : StoreSnapshot(s, FALSE)

StoreEarnings ==
    /\ now < Clock[Len(Clock)]
    /\ StoreEarningsDate("APP", DateOf(now), FALSE)

Recompute ==
    /\ now \notin Runs
    /\ CalculateAndStoreAverages("APP", FALSE, FALSE)

NextAverages == Tick \/ Collect \/ PutRaw \/ StoreEarnings \/ Recompute

SpecAverages == InitEmpty /\ [][NextAverages]_vars

----------------------------------------------------------------------------
(* C2, C3 *)

\* the records of the run that has just completed
RunRecords == {a \in averages : a.calculated_at = last.calculated_at /\ a.symbol = last.symbol}

\* the snapshots a bucket's average is to be taken over: in the lookback window of the
\* run, ask present and > 0, bucket fields present, captured outside every stored
\* earnings week of the symbol
Contributing(symbol, calculated_at) ==
    {r \in snapshots :
        /\ r.symbol = symbol
        /\ r.timestamp >= calculated_at - Weeks(HISTORY_WEEKS)
        /\ r.ask # NULL /\ r.ask > 0
        /\ r.day_of_week # NULL /\ r.time_slot # NULL /\ r.ordinal_position # NULL
        /\ ~\E e \in earnings :
              /\ e.symbol = symbol
              /\ e.week_start <= DateOf(r.timestamp)
              /\ DateOf(r.timestamp) <= e.week_end}

JustRecomputed == last.op = "calculate_and_store_averages" /\ last.result

\* C2: after a successful recompute the records carrying the run's calculated_at are in
\* one-to-one correspondence with the buckets that have a qualifying snapshot: each such
\* bucket has exactly one record, and every record belongs to such a bucket.
C2_OneRecordPerGroup ==
    JustRecomputed =>
        LET groups == {GroupOf(r) : r \in Contributing(last.symbol, last.calculated_at)}
        IN  /\ \A g \in groups : Cardinality({a \in RunRecords : BucketOf(a) = g}) = 1
            /\ \A a \in RunRecords : BucketOf(a) \in groups

----------------------------------------------------------------------------
(* Specification of the price comparison: chains are captured, averages   *)
(* recomputed, and check_price_elevation is called for Thursday 09:35     *)
(* buckets with connection and query failures injected.                   *)

\* current prices: negative, zero, just under and exactly at 34% above an average of 100
CurrentPrices == {-5, 0, 133, 134}

\* a comparison leaves the tables as they are, so a second one right after it reaches
\* nothing the first did not
Check ==
    /\ last.op # "check_price_elevation"
    /\ \E current_price \in CurrentPrices, option_type \in {"CALL", "PUT"},
       ordinal_position \in {1, 2}, fault \in {"none", "connect", "query"} :
          CheckElevation(current_price, option_type, ordinal_position, 1, 3, 935, "APP",
                         fault)

NextElevation == Tick \/ Collect \/ Recompute \/ Check

SpecElevation == InitEmpty /\ [][NextElevation]_vars

----------------------------------------------------------------------------
(* C4, C8, C9, C10 *)

JustChecked == last.op = "check_price_elevation"

\* what get_average_price answers for the bucket of the comparison that has just run
\* (the tables are as the comparison read them)
Obtained ==
    GetAveragePrice(last.bucket[3], last.bucket[4], last.bucket[5],
                    last.bucket[1], last.bucket[2], last.symbol, last.fault)

RawOfBucket(symbol, bucket) ==
    {r \in Contributing(symbol, now) : GroupOf(r) = bucket}

\* C8: on a bucket with neither a precomputed WeeklyAverage nor a qualifying raw snapshot
\* check_elevation returns has_historical_data = false, is_elevated = false,
\* confidence_boost = 0.0, avg_price = null and elevation_pct = null, whatever the
\* current price.
C8_NoHistory ==
    (JustChecked /\ AveragesOf(last.symbol, last.bucket) = {}
       /\ RawOfBucket(last.symbol, last.bucket) = {}) =>
        /\ ~last.result.has_historical_data
        /\ ~last.result.is_elevated
        /\ last.result.confidence_boost = 0
        /\ last.result.avg_price = NoAverage
        /\ last.result.elevation_pct = NoAverage

\* a comparison with a positive price on an empty bucket of a store that has rows and
\* averages for other buckets
C8_Witness ==
    /\ JustChecked /\ last.fault = "none" /\ last.current_price > 0
    /\ AveragesOf(last.symbol, last.bucket) = {}
    /\ RawOfBucket(last.symbol, last.bucket) = {}
    /\ averages # {}
    /\ \E r \in snapshots : r.option_type = last.bucket[3] /\ r.timestamp >= now - Weeks(1)
    /\ ~last.result.has_historical_data

\* C9: with current_price <= 0 on a bucket that has a positive historical average,
\* check_elevation returns is_elevated = false, has_historical_data = true, avg_price
\* equal to that average, elevation_pct = null and confidence_boost = 0.
C9_NonPositivePrice ==
    (JustChecked /\ ~Obtained.raised /\ Obtained.value.den > 0 /\ Obtained.value.num > 0
       /\ last.current_price <= 0) =>
        /\ ~last.result.is_elevated
        /\ last.result.has_historical_data
        /\ last.result.avg_price = Obtained.value
        /\ last.result.elevation_pct = NoAverage
        /\ last.result.confidence_boost = 0

C9_Witness ==
    /\ JustChecked
    /\ last.current_price < 0
    /\ last.result.has_historical_data
    /\ last.result.avg_price.num > 0

\* C10: check_elevation never raises; whenever the average could not be obtained (the
\* read failed, or there is none) the result has is_elevated = false, confidence_boost =
\* 0.0 and has_historical_data = false; the store is left unchanged.
C10_NeverRaises ==
    JustChecked =>
        /\ ~last.result.raised
        /\ (Obtained.raised \/ ~Truthy(Obtained.value)) =>
              /\ ~last.result.is_elevated
              /\ last.result.confidence_boost = 0
              /\ ~last.result.has_historical_data
        /\ <<snapshots, averages, earnings>> = last.before

\* a comparison whose connection failed although the bucket has a precomputed average
C10_Witness ==
    /\ JustChecked
    /\ last.fault = "connect"
    /\ AveragesOf(last.symbol, last.bucket) # {}
    /\ ~last.result.has_historical_data

----------------------------------------------------------------------------
(* Specification of retention: chains are captured and averages            *)
(* recomputed at the instants of the clock, and cleanup_old_data runs with *)
(* the scheduler's 6 weeks or the default HISTORY_WEEKS.                   *)

SchedulerWeeks == 6

Purge == \E weeks \in {SchedulerWeeks, HISTORY_WEEKS}, f \in BOOLEAN : CleanupOldData(weeks, f)

NextRetention == Tick \/ Collect \/ Recompute \/ Purge

SpecRetention == InitEmpty /\ [][NextRetention]_vars

----------------------------------------------------------------------------
(* C5, C6 *)

JustPurged == last.op = "cleanup_old_data" /\ last.ok

\* C5: after purge(weeks) the WeeklyAverage records that survive are exactly those of
\* the two most recent distinct calculated_at values, however many runs there were.
C5_TwoLatestRuns ==
    JustPurged =>
        LET before == last.before[2]
            runs == {a.calculated_at : a \in before}
        IN  averages =
              {a \in before : Cardinality({c \in runs : c > a.calculated_at}) < 2}

\* a purge of a table holding three runs
C5_Witness ==
    /\ JustPurged
    /\ Cardinality({a.calculated_at : a \in last.before[2]}) = 3
    /\ Cardinality(Runs) = 2

\* C6: after purge(weeks) succeeds no snapshot older than purge time - weeks remains,
\* every snapshot at or newer than that cutoff is still present and unchanged, and the
\* returned rows_deleted is the number of snapshots removed.
C6_Retention ==
    JustPurged =>
        LET before == last.before[1]
            cutoff == now - last.weeks * 7 * 24 * 60
        IN  /\ \A r \in snapshots : r.timestamp >= cutoff
            /\ \A r \in before : r.timestamp >= cutoff => r \in snapshots
            /\ snapshots \subseteq before
            /\ last.result = Cardinality(before \ snapshots)

\* a purge that removed rows and kept others
C6_Witness ==
    /\ JustPurged
    /\ last.result > 0
    /\ snapshots # {}

----------------------------------------------------------------------------
(* Specification of the migrations: a store left by a version that had no *)
(* bucket columns holds, for one capture, some calls and some puts without *)
(* day_of_week, time_slot and ordinal_position; the store is opened again  *)
(* and again, and rows are written through store_snapshot in between.      *)

MaxLegacy == 11

\* a row written before the bucket columns existed
LegacyRow(option_type, strike) ==
    SnapshotValues(
        [c \in DOMAIN WriteInput(strike, 100)
               \ {"day_of_week", "time_slot", "ordinal_position"} |->
            IF c = "option_type" THEN option_type ELSE WriteInput(strike, 100)[c]])

InitLegacy ==
    /\ now = WriteTime
    /\ \E calls \in 0..MaxLegacy, puts \in 0..MaxLegacy :
          snapshots = {LegacyRow("CALL", 100 + k) : k \in 1..calls}
                      \cup {LegacyRow("PUT", 100 - k) : k \in 1..puts}
    /\ averages = {}
    /\ earnings = {}
    /\ signals_today = <<>>
    /\ last = NoOp

Restart == \E timeFails, ordinalFails \in BOOLEAN : Startup(timeFails, ordinalFails)

PutLegacy == \E s \in RawInputs : StoreSnapshot(s, FALSE)

NextMigration == Restart \/ PutLegacy

SpecMigration == InitLegacy /\ [][NextMigration]_vars

----------------------------------------------------------------------------
(* C7 *)

\* C7: once the migrations have run, running them a second time updates zero rows and
\* leaves the store unchanged.
C7_SecondRunUpdatesNothing ==
    (last.op = "startup" /\ last.ok /\ last.again) =>
        /\ last.time_updated = 0
        /\ last.ordinal_updated = 0
        /\ snapshots = last.before

----------------------------------------------------------------------------
(* Specification of the evaluation of a signal's strikes: captures and *)
(* recomputations as above, and evaluate_strikes on lists of strikes.   *)

MaxStrikes == 3

\* a strike quoted well above the averages, one quoted at them, one with no ask and a
\* high last price
StrikeInputs ==
    { [strike |-> 103, ask |-> 300], [strike |-> 101, ask |-> 100],
      [strike |-> 102, ask |-> 0, last_price |-> 300] }

Evaluate ==
    /\ last.op # "evaluate_strikes"
    /\ \E strikes \in SeqsUpTo(StrikeInputs, MaxStrikes), fault \in {"none", "query"} :
          EvaluateStrikes(strikes, "CALL", 1, fault)

NextStrikes == Tick \/ Collect \/ Recompute \/ Evaluate

SpecStrikes == InitEmpty /\ [][NextStrikes]_vars

----------------------------------------------------------------------------
(* C11 *)

JustEvaluated == last.op = "evaluate_strikes"

ElevatedStrikes ==
    {i \in 1..Len(last.result.enhanced) : last.result.enhanced[i].price_comparison.is_elevated}

\* C11: max_confidence_boost is the maximum of the confidence_boost values of the
\* per-strike comparisons, never their sum: 0.3 if at least one strike is elevated and
\* 0.0 otherwise, 0.0 for an empty list, however many strikes are elevated.
C11_MaxBoostNotSummed ==
    JustEvaluated =>
        /\ last.result.max_boost =
              Max({0} \cup {last.result.enhanced[i].price_comparison.confidence_boost :
                               i \in 1..Len(last.result.enhanced)})
        /\ last.result.max_boost =
              IF ElevatedStrikes # {} THEN PRICE_ELEVATION_BOOST ELSE 0
        /\ Len(last.result.enhanced) = Len(last.strikes)

\* three strikes evaluated, two of them elevated and one not
C11_Witness ==
    /\ JustEvaluated
    /\ Len(last.strikes) = 3
    /\ Cardinality(ElevatedStrikes) = 2

----------------------------------------------------------------------------
(* Specification of the average lookup: captures whose asks differ from one *)
(* capture to the next, earnings dates, recomputations, and comparisons of  *)
(* a price with the average of a bucket.                                    *)

\* the chains the provider answers with: calls only, with different asks
QuotedChains ==
    { <<  <<Quote(101, 100), Quote(102, 100)>>,  <<>>  >>,
      <<  <<Quote(101, 200), Quote(102, 300)>>,  <<>>  >> }

CollectQuoted ==
    /\ \A r \in snapshots : r.timestamp # now
    /\ \E chain \in QuotedChains :
          CollectSnapshot("APP", 100, chain[1], chain[2], TRUE, FALSE)

Lookup ==
    /\ last.op # "check_price_elevation"
    /\ \E ordinal_position \in {1, 2}, fault \in {"none", "query"} :
          CheckElevation(134, "CALL", ordinal_position, 1, 3, 935, "APP", fault)

NextLookup == Tick \/ CollectQuoted \/ StoreEarnings \/ Recompute \/ Lookup

SpecLookup == InitEmpty /\ [][NextLookup]_vars

----------------------------------------------------------------------------
(* C12, C13 *)

\* the precomputed records of the bucket of the comparison that has just run
BucketRecords == AveragesOf(last.symbol, last.bucket)

\* the value a record offers: its ask average, or its mid average when it has none
RecordAverage(a) == IF a.avg_ask_price # NoAverage THEN a.avg_ask_price ELSE a.avg_mid_price

\* C12: when records exist for the exact bucket, the average the comparison uses is that
\* of the record with the greatest calculated_at among them, never that of an older run.
C12_LatestRunUsed ==
    (JustChecked /\ last.fault = "none" /\ BucketRecords # {}) =>
        \E a \in BucketRecords :
            /\ \A b \in BucketRecords : b.calculated_at <= a.calculated_at
            /\ last.result.has_historical_data
            /\ last.result.avg_price = RecordAverage(a)

\* the bucket has records of two runs with different averages
C12_Witness ==
    /\ JustChecked /\ last.fault = "none"
    /\ \E a, b \in BucketRecords :
          /\ a.calculated_at < b.calculated_at
          /\ RecordAverage(a) # RecordAverage(b)
          /\ last.result.avg_price = RecordAverage(b)

\* the raw snapshots of the bucket that qualify for an average taken now
BucketContributing ==
    {r \in Contributing(last.symbol, now) : GroupOf(r) = last.bucket}

----------------------------------------------------------------------------
(* Specification of the earnings calendar: dates stored one at a time and *)
(* refreshes from the provider, for two symbols.                           *)

MaxDates == 2

\* a Thursday, and the Saturday and the Sunday after it
EarningsDates == {DateOf(WriteTime), DateOf(WriteTime) + 2, DateOf(WriteTime) + 3}

\* what the provider's calendar holds
FetchedDates == {DateOf(WriteTime), DateOf(WriteTime) + 2}

InitCalendar == InitEmpty

PutEarnings ==
    \E earnings_date \in EarningsDates, source \in {"yfinance", "manual"}, f \in BOOLEAN :
        StoreEarningsDateFrom("APP", earnings_date, source, f)

Refresh ==
    \E symbol \in {"APP", "XYZ"}, dates \in SeqsUpTo(FetchedDates, MaxDates),
       raises \in BOOLEAN :
        LET answer == [raises |-> raises, dates |-> dates]
        IN  \E failing \in SUBSET (1..Len(FetchEarningsDates(answer))) :
                RefreshEarningsCalendar(symbol, answer, failing)

NextCalendar == PutEarnings \/ Refresh

SpecCalendar == InitCalendar /\ [][NextCalendar]_vars

----------------------------------------------------------------------------
(* C14, C18 *)

\* C14: every stored earnings week, for every date supplied as earnings_date, has
\* week_start on a Monday and week_end on the Friday of the same week, and
\* week_start <= earnings_date <= week_end.
C14_WeekContainsDate ==
    \A e \in earnings :
        /\ Weekday(e.week_start) = 0
        /\ Weekday(e.week_end) = 4
        /\ e.week_end = e.week_start + 4
        /\ e.week_start <= e.earnings_date
        /\ e.earnings_date <= e.week_end

JustRefreshed == last.op = "refresh_earnings_calendar"

\* C18: the calendar holds at most one row per (symbol, earnings_date); a refresh stores
\* a row for every fetched date whose write succeeds and leaves the other rows alone;
\* a refresh for which the provider gives no dates, or fails, leaves the calendar
\* unchanged and reports nothing stored.
C18_RefreshUpserts ==
    /\ \A a, b \in earnings : EarningsKey(a) = EarningsKey(b) => a = b
    /\ JustRefreshed =>
        LET dates == IF last.answer.raises THEN <<>> ELSE last.answer.dates
            written == {dates[i] : i \in (1..Len(dates)) \ last.failing}
        IN  /\ \A d \in written :
                  \E e \in earnings : e.symbol = last.symbol /\ e.earnings_date = d
            /\ \A e \in last.before :
                  (e.symbol # last.symbol \/ e.earnings_date \notin written) => e \in earnings
            /\ \A e \in earnings \ last.before :
                  e.symbol = last.symbol /\ e.earnings_date \in written
            /\ last.stored_count = Len(dates) - Cardinality(last.failing)
            /\ last.result = (last.stored_count > 0)
            /\ dates = <<>> =>
                  earnings = last.before /\ last.stored_count = 0 /\ ~last.result

\* a refresh that fetched a date already in the calendar from another source, and one
\* that fetched nothing on a calendar with rows
C18_Witness ==
    /\ JustRefreshed
    /\ \/ \E e \in last.before, f \in earnings :
              /\ EarningsKey(e) = EarningsKey(f) /\ e # f
              /\ Len(last.answer.dates) = 2 /\ last.result
       \/ last.answer.raises /\ last.answer.dates # <<>> /\ earnings # {}

----------------------------------------------------------------------------
(* Specification of the collector: at each instant the provider answers *)
(* with a chain of some length around the price, in strike order.       *)

MaxChain == 13

\* n consecutive strikes from first on, each quoted at 100
ChainFrom(first, n) == [i \in 1..n |-> Quote(first + i - 1, 100)]

\* no chain, a chain with one strike out of the money, and chains with ten and with
\* eleven (with MaxChain = 13)
ChainLengths == {0, 3, MaxChain - 1, MaxChain}

\* calls from one strike below the price upwards, puts up to one strike above it
CollectChain ==
    /\ \A r \in snapshots : r.timestamp # now
    /\ \E n \in ChainLengths, stock_price \in {0, 100}, hasFriday, commitFails \in BOOLEAN :
          CollectSnapshot("APP", stock_price, ChainFrom(99, n), ChainFrom(102 - n, n),
                          hasFriday, commitFails)

NextCollect == Tick \/ CollectChain

SpecCollect == InitEmpty /\ [][NextCollect]_vars

----------------------------------------------------------------------------
(* C16 *)

\* the rows of one capture with one option type
SameCapture(r) ==
    {q \in snapshots : q.timestamp = r.timestamp /\ q.symbol = r.symbol
                       /\ q.option_type = r.option_type}

\* how far out of the money a row's strike is
OtmDistance(r) ==
    IF r.option_type = "CALL" THEN r.strike - r.stock_price ELSE r.stock_price - r.strike

\* C16: in every capture, for each option type, the snapshots are strictly out of the
\* money and carry the positions 1..k, k <= 10, each once, increasing with the distance
\* of the strike from the price; no snapshot with a position above 10 is stored.
C16_OrdinalRanks ==
    \A r \in snapshots :
        /\ OtmDistance(r) > 0
        /\ r.ordinal_position \in 1..NearestOtm
        /\ {q.ordinal_position : q \in SameCapture(r)} = 1..Cardinality(SameCapture(r))
        /\ \A q \in SameCapture(r) :
              (q.ordinal_position < r.ordinal_position) = (OtmDistance(q) < OtmDistance(r))

\* a capture of a chain with eleven strikes out of the money on each side: ten calls and
\* ten puts are stored, the farthest call and the farthest put are not
C16_Witness ==
    /\ last.op = "collect_snapshot"
    /\ Len(SelectSeq(last.calls, LAMBDA q : q.strike > last.stock_price)) = NearestOtm + 1
    /\ Len(SelectSeq(last.puts, LAMBDA q : q.strike < last.stock_price)) = NearestOtm + 1
    /\ last.result = 2 * NearestOtm
    /\ Cardinality({r \in snapshots : r.timestamp = now}) = 2 * NearestOtm
    /\ \A r \in snapshots : r.strike # last.calls[Len(last.calls)].strike
                            /\ r.strike # last.puts[1].strike

----------------------------------------------------------------------------
(* Specification of repeated recomputations: at each instant the chain is  *)
(* captured, if at all, before the averages are recomputed, as the         *)
(* scheduler does (collection in market hours, recomputation at the end of *)
(* the day); no earnings date is stored and nothing is purged.             *)

CollectBeforeRun == now \notin Runs /\ Collect

NextRepeat == Tick \/ CollectBeforeRun \/ Recompute

SpecRepeat == InitEmpty /\ [][NextRepeat]_vars

----------------------------------------------------------------------------
(* C17 *)

\* the qualifying snapshots the run at calculated_at read (captures come before the run
\* of their instant, and no row is ever removed)
SeenBy(calculated_at) ==
    {r \in Contributing("APP", calculated_at) : r.timestamp <= calculated_at}

\* the earlier runs that read the same qualifying snapshots as the run just completed
SameDataRuns ==
    {c \in {a.calculated_at : a \in last.before} :
        c < last.calculated_at /\ SeenBy(c) = SeenBy(last.calculated_at)}

SameStatistics(a, b) ==
    /\ a.avg_ask_price = b.avg_ask_price
    /\ a.avg_mid_price = b.avg_mid_price
    /\ a.sample_count = b.sample_count
    /\ a.min_price = b.min_price
    /\ a.max_price = b.max_price

RecordsOf(calculated_at, bucket) ==
    {a \in averages : a.calculated_at = calculated_at /\ a.symbol = "APP"
                      /\ BucketOf(a) = bucket}

\* C17: a recomputation on the snapshots and calendar an earlier one read leaves, for
\* every bucket, two records that differ in calculated_at and have the same avg_ask_price,
\* avg_mid_price, sample_count, min_price and max_price, and it does not alter or remove
\* the records of the earlier run.
C17_RepeatedRunSameStatistics ==
    (JustRecomputed /\ SameDataRuns # {}) =>
        /\ last.before \subseteq averages
        /\ \A c \in SameDataRuns :
            \A bucket \in {GroupOf(r) : r \in SeenBy(last.calculated_at)} :
                \E a \in RecordsOf(c, bucket), b \in RecordsOf(last.calculated_at, bucket) :
                    SameStatistics(a, b)

\* the records that a repeated run does leave have the statistics of the earlier run's,
\* and the earlier run's records are all still there
SurvivingRecordsRepeat ==
    (JustRecomputed /\ SameDataRuns # {}) =>
        /\ last.before \subseteq averages
        /\ \A c \in SameDataRuns :
            \A a \in {x \in averages : x.calculated_at = c} :
                \E b \in RecordsOf(last.calculated_at, BucketOf(a)) : SameStatistics(a, b)

----------------------------------------------------------------------------
(* C19, C20 *)

JustStarted == last.op = "startup"

\* day_of_week, time_slot and ordinal_position are all populated
Populated(r) == r.day_of_week # NULL /\ r.time_slot # NULL /\ r.ordinal_position # NULL

\* C19: the startup migrations never change any field of a row whose day_of_week,
\* time_slot and ordinal_position are all populated, even when other rows of its
\* (timestamp, symbol, option_type) still have a null ordinal_position.
C19_PopulatedRowsUntouched ==
    JustStarted => \A r \in last.before : Populated(r) => r \in snapshots

\* the row a row was before the start-up (the migrations keep the natural key)
Formerly(r) == CHOOSE q \in last.before : SnapshotKey(q) = SnapshotKey(r)

\* the place of a row among the rows of its capture and type in strike order, ascending
\* for CALL and descending for PUT
StrikeRank(r) ==
    1 + Cardinality({q \in SameCapture(r) :
                        IF r.option_type = "CALL" THEN q.strike < r.strike
                        ELSE q.strike > r.strike})

\* C20: after migrate_ordinal_positions, in every group sharing (timestamp, symbol,
\* option_type) that contained a null-ordinal row, the first min(n, 10) rows in strike
\* order carry ordinal_position 1, 2, ... in that order, and the rows beyond the tenth
\* keep what they had: legacy rows retain a null ordinal_position.
C20_FirstTenRanked ==
    (JustStarted /\ last.ok) =>
        \A r \in snapshots :
            (\E q \in last.before : /\ q.timestamp = r.timestamp /\ q.symbol = r.symbol
                                    /\ q.option_type = r.option_type
                                    /\ q.ordinal_position = NULL) =>
                IF StrikeRank(r) <= OrdinalLimit
                THEN r.ordinal_position = StrikeRank(r)
                ELSE r.ordinal_position = Formerly(r).ordinal_position

\* a start-up on a group of eleven legacy puts: ten are ranked from the highest strike
\* down and the eleventh keeps a null ordinal_position
C20_Witness ==
    /\ JustStarted /\ last.ok /\ ~last.again
    /\ \E r \in snapshots :
          /\ r.option_type = "PUT"
          /\ StrikeRank(r) = OrdinalLimit + 1
          /\ r.ordinal_position = NULL
          /\ \A q \in SameCapture(r) \ {r} :
                q.ordinal_position = StrikeRank(q) /\ Formerly(q).ordinal_position = NULL

----------------------------------------------------------------------------
(* Specification of the earnings exclusion: captures, earnings dates of the *)
(* current week and of a week that lies before every lookback window,       *)
(* recomputations and comparisons.                                          *)

StoreOldEarnings == StoreEarningsDate("APP", DateOf(WriteTime) - DaysPerWeek, FALSE)

NextExclusion ==
    Tick \/ CollectQuoted \/ StoreEarnings \/ StoreOldEarnings \/ Recompute \/ Lookup

SpecExclusion == InitEmpty /\ [][NextExclusion]_vars

----------------------------------------------------------------------------
(* C21 *)

\* the snapshots of a symbol that qualify for an average taken now but for the earnings
\* exclusion
OtherwiseQualifying(symbol) ==
    {r \in snapshots :
        /\ r.symbol = symbol
        /\ r.timestamp >= now - Weeks(HISTORY_WEEKS)
        /\ r.ask # NULL /\ r.ask > 0
        /\ r.day_of_week # NULL /\ r.time_slot # NULL /\ r.ordinal_position # NULL}

\* those of them that is_earnings_week does not place in an earnings week
OutsideEarningsWeeks(symbol) ==
    {r \in OtherwiseQualifying(symbol) : ~IsEarningsWeek(DateOf(r.timestamp), symbol, FALSE)}

----------------------------------------------------------------------------
(* C22 *)

\* C22: evaluate_strikes returns a list of the length and in the order of its input, in
\* which the i-th strike has ordinal_position i and a price_comparison computed for
\* bucket ordinal i, whatever the strike values; the input dicts are not modified.
C22_CallerOrderKept ==
    JustEvaluated =>
        /\ Len(last.result.enhanced) = Len(last.strikes)
        /\ last.strikes_after = last.strikes
        /\ \A i \in 1..Len(last.strikes) :
              LET e == last.result.enhanced[i]
                  got == GetAveragePrice(last.option_type, i, last.dte,
                                         Weekday(DateOf(now)), TimeSlot(now), "APP",
                                         last.fault)
              IN  /\ e.strike_data = last.strikes[i]
                  /\ e.ordinal_position = i
                  /\ e.price_comparison.ordinal_position = i
                  /\ e.price_comparison.current_price = OptionPrice(last.strikes[i])
                  /\ e.price_comparison.has_historical_data = Truthy(got.value)
                  /\ e.price_comparison.has_historical_data =>
                        e.price_comparison.avg_price = got.value

\* strikes handed over farthest first: the first, with the highest strike, is compared
\* with the average of position 1
C22_Witness ==
    /\ JustEvaluated
    /\ Len(last.strikes) = 2
    /\ last.strikes[1].strike > last.strikes[2].strike
    /\ last.result.enhanced[1].ordinal_position = 1
    /\ last.result.enhanced[1].price_comparison.has_historical_data
    /\ last.result.enhanced[2].price_comparison.has_historical_data

----------------------------------------------------------------------------
(* Specification of the backfill of the time metadata: the store holds one *)
(* legacy row captured at the current instant, which is any day of a week  *)
(* at one of several times of day; the store is opened and the collector   *)
(* captures a chain at the same instant.                                   *)

\* every day of a week at midnight, 09:34, 09:35 and 23:59
Instants ==
    {Weeks(1) + d * MinutesPerDay + m :
        d \in 0..(DaysPerWeek - 1), m \in {0, 9 * 60 + 34, 9 * 60 + 35, 23 * 60 + 59}}

InitBackfill ==
    /\ now \in Instants
    /\ snapshots = {[LegacyRow("CALL", 105) EXCEPT !.timestamp = now]}
    /\ averages = {}
    /\ earnings = {}
    /\ signals_today = <<>>
    /\ last = NoOp

CollectNow ==
    \E chain \in QuotedChains : CollectSnapshot("APP", 100, chain[1], chain[2], TRUE, FALSE)

NextBackfill == Restart \/ CollectNow

SpecBackfill == InitBackfill /\ [][NextBackfill]_vars

----------------------------------------------------------------------------
(* C23 *)

\* C23: the day_of_week and time_slot that migrate_time_metadata backfills on a legacy
\* row are those the collector assigns to a snapshot captured at the same timestamp
\* (weekday from Monday = 0, HH:MM with the minute floored to a multiple of 5), so that
\* backfilled and collected rows of one instant are in the same bucket.
C23_BackfillMatchesCollector ==
    /\ \A r \in snapshots :
          r.day_of_week # NULL =>
              /\ r.day_of_week = Weekday(DateOf(r.timestamp))
              /\ r.time_slot = TimeSlot(r.timestamp)
    /\ \A r, q \in snapshots :
          (r.timestamp = q.timestamp /\ r.day_of_week # NULL /\ q.day_of_week # NULL) =>
              (r.day_of_week = q.day_of_week /\ r.time_slot = q.time_slot)
    /\ (JustStarted /\ last.time_updated > 0) =>
          \A r \in snapshots : r.day_of_week # NULL /\ r.time_slot # NULL

\* a Sunday 23:59: the backfilled legacy row and a collected row are both in the bucket
\* of day 6, 23:55
C23_Witness ==
    /\ Weekday(DateOf(now)) = 6
    /\ now % MinutesPerDay = 23 * 60 + 59
    /\ \E r, q \in snapshots :
          /\ r.strike = 105 /\ r.day_of_week = 6 /\ r.time_slot = 2355
          /\ q.strike # 105 /\ q.day_of_week = 6 /\ q.time_slot = 2355
          /\ q.timestamp = r.timestamp

----------------------------------------------------------------------------
(* TradingAlertSystem: the scheduler's collection job.                     *)

MARKET_OPEN == 9 * 60 + 30

MARKET_CLOSE == 16 * 60

PREMARKET_START == 9 * 60

\* is_trading_day: Thursday = 3, Friday = 4
IsTradingDay(t) == Weekday(DateOf(t)) \in {3, 4}

\* is_market_hours: PREMARKET_START <= now <= MARKET_CLOSE
IsMarketHours(t) == PREMARKET_START <= t % MinutesPerDay /\ t % MinutesPerDay <= MARKET_CLOSE

\* is_collection_time of the collector: 9:30 AM - 4:00 PM on Thursday or Friday
IsCollectionTime(t) ==
    /\ Weekday(DateOf(t)) \in {3, 4}
    /\ MARKET_OPEN <= t % MinutesPerDay
    /\ t % MinutesPerDay <= MARKET_CLOSE

\* collect_options_data: skipped outside the trading days and the market hours,
\* otherwise the collector captures the chain the provider answers with
CollectOptionsData(stock_price, calls, puts) ==
    IF ~IsTradingDay(now) \/ ~IsMarketHours(now)
    THEN /\ last' = [op |-> "collect_options_data", skipped |-> TRUE]
         /\ UNCHANGED <<signals_today, now, snapshots, averages, earnings>>
    ELSE CollectSnapshot("APP", stock_price, calls, puts, TRUE, FALSE)

----------------------------------------------------------------------------
(* Specification of the collection job: the timer fires at instants of one *)
(* week, on every day before, at and after the opening and closing times.  *)

\* every day of a week at 08:59, 09:00, 09:30, 16:00 and 16:01
TimerInstants ==
    {Weeks(1) + d * MinutesPerDay + m :
        d \in 0..(DaysPerWeek - 1),
        m \in {PREMARKET_START - 1, PREMARKET_START, MARKET_OPEN, MARKET_CLOSE, MARKET_CLOSE + 1}}

InitTimer ==
    /\ now = Min(TimerInstants)
    /\ snapshots = {}
    /\ averages = {}
    /\ earnings = {}
    /\ signals_today = <<>>
    /\ last = NoOp

\* the next firing of the timer
NextInstant ==
    /\ \E t \in TimerInstants : t > now
    /\ now' = Min({t \in TimerInstants : t > now})
    /\ last' = NoOp
    /\ UNCHANGED <<signals_today, snapshots, averages, earnings>>

TimedCollect ==
    /\ last.op = "none"
    /\ \E chain \in QuotedChains : CollectOptionsData(100, chain[1], chain[2])

NextTimer == NextInstant \/ TimedCollect

SpecTimer == InitTimer /\ [][NextTimer]_vars

----------------------------------------------------------------------------
(* C24 *)

\* C24: the scheduler collects only inside the collection window: a snapshot captured
\* at the current instant is in the store only on a Thursday or Friday between 09:30
\* and 16:00, and a run of collect_options_data outside that window leaves no snapshot
\* of its instant.
C24_CollectsOnlyInWindow ==
    (\E r \in snapshots : r.timestamp = now) => IsCollectionTime(now)

----------------------------------------------------------------------------
(* TradingAlertSystem: the scheduler's daily purge.                        *)

\* cleanup_old_history: skipped on a day that is not a trading day, otherwise
\* cleanup_old_data(weeks=6)
CleanupOldHistory(ioFails) ==
    IF ~IsTradingDay(now)
    THEN /\ last' = [op |-> "cleanup_old_history", skipped |-> TRUE]
         /\ UNCHANGED <<signals_today, now, snapshots, averages, earnings>>
    ELSE CleanupOldData(SchedulerWeeks, ioFails)

----------------------------------------------------------------------------
(* Specification of the daily purge: chains are collected and averages are *)
(* recomputed on a Thursday, on the Thursday a minute more than the purge's *)
(* weeks later, on the Saturday after it and on the Thursday HISTORY_WEEKS *)
(* after the first; the purge is scheduled at each of these instants.      *)

PurgeClock ==
    <<WriteTime, WriteTime + Weeks(SchedulerWeeks) + 1,
      WriteTime + Weeks(SchedulerWeeks) + 2 * MinutesPerDay, WriteTime + Weeks(HISTORY_WEEKS)>>

Pass ==
    /\ \E i \in 1..(Len(PurgeClock) - 1) : now = PurgeClock[i] /\ now' = PurgeClock[i + 1]
    /\ last' = NoOp
    /\ UNCHANGED <<signals_today, snapshots, averages, earnings>>

NextHousekeeping == Pass \/ Collect \/ Recompute \/ (\E f \in BOOLEAN : CleanupOldHistory(f))

SpecHousekeeping == InitEmpty /\ [][NextHousekeeping]_vars

----------------------------------------------------------------------------
(* C25 *)

\* C25: the scheduled daily purge deletes no snapshot the averaging still needs: every
\* snapshot that was in the store before cleanup_old_history ran and whose timestamp is
\* inside the lookback window of HISTORY_WEEKS is still in the store after it.
C25_PurgeKeepsLookbackWindow ==
    (JustPurged /\ last.weeks = SchedulerWeeks) =>
        \A r \in last.before[1] :
            r.timestamp >= now - Weeks(HISTORY_WEEKS) => r \in snapshots

----------------------------------------------------------------------------
(* Specification of the store shared by two symbols: chains of either      *)
(* symbol are collected, averages are recomputed for one symbol at a time, *)
(* each run at an instant of its own, and old data is cleaned up.          *)

CollectFor ==
    \E symbol \in {"APP", "XYZ"} :
        /\ \A r \in snapshots : r.symbol = symbol => r.timestamp # now
        /\ CollectSnapshot(symbol, 100, <<Quote(101, 100), Quote(102, 200)>>, <<>>, TRUE, FALSE)

RecomputeFor ==
    /\ now \notin Runs
    /\ \E symbol \in {"APP", "XYZ"} : CalculateAndStoreAverages(symbol, FALSE, FALSE)

NextSymbols == Tick \/ CollectFor \/ RecomputeFor \/ Purge

SpecSymbols == InitEmpty /\ [][NextSymbols]_vars

----------------------------------------------------------------------------
(* C26 *)

\* C26: cleanup_old_data strips no symbol of its precomputed averages: every symbol that
\* had weekly_averages records before the cleanup still has all the records of its own
\* most recent calculation run after it, whatever runs exist for other symbols.
C26_EverySymbolKeepsLatestRun ==
    JustPurged =>
        \A symbol \in {a.symbol : a \in last.before[2]} :
            LET own == {a \in last.before[2] : a.symbol = symbol}
                latest == Max({a.calculated_at : a \in own})
            IN  \A a \in own : a.calculated_at = latest => a \in averages

----------------------------------------------------------------------------
(* C27 *)

\* the snapshots of the bucket of the comparison that has just run whose capture date
\* is in no earnings week now stored for the symbol
OutsideStoredWeeks ==
    {r \in snapshots :
        /\ r.symbol = last.symbol
        /\ GroupOf(r) = last.bucket
        /\ r.ask # NULL /\ r.ask > 0
        /\ ~\E e \in earnings :
              /\ e.symbol = last.symbol
              /\ e.week_start <= DateOf(r.timestamp)
              /\ DateOf(r.timestamp) <= e.week_end}

\* C27: at every moment the average check_elevation uses for a bucket has no contribution
\* from a snapshot captured in an earnings week now stored for the symbol, weeks stored
\* after the last recompute included: the average is the mean of ask over some snapshots
\* of the bucket that are all outside the stored earnings weeks.
C27_NoEarningsWeekContribution ==
    (JustChecked /\ last.fault = "none" /\ last.result.has_historical_data) =>
        \E rows \in SUBSET OutsideStoredWeeks :
            /\ rows # {}
            /\ last.result.avg_price.num * Cardinality(rows)
                 = Sum(rows, "ask") * last.result.avg_price.den

----------------------------------------------------------------------------
(* C28 *)

\* the buckets the comparison is asked about: Thursday 09:35, CALL, dte 1, ordinal 1 or 2
LookupBuckets == {<<3, 935, "CALL", ordinal_position, 1>> : ordinal_position \in {1, 2}}

\* C28: immediately after calculate_and_store_averages(symbol) has completed,
\* get_average_price returns for every bucket the mean of ask over the qualifying
\* snapshots of the bucket, or None when the bucket has none, whether the value comes
\* from a weekly_averages record or from the ad-hoc aggregation.
C28_LookupIsBucketMean ==
    JustRecomputed =>
        \A bucket \in LookupBuckets :
            LET rows == {r \in Contributing(last.symbol, now) : GroupOf(r) = bucket}
                got == GetAveragePrice(bucket[3], bucket[4], bucket[5], bucket[1],
                                       bucket[2], last.symbol, "none")
            IN  /\ ~got.raised
                /\ rows = {} => got.value = NoAverage
                /\ rows # {} =>
                      /\ got.value.den # 0
                      /\ got.value.num * Cardinality(rows) = Sum(rows, "ask") * got.value.den

----------------------------------------------------------------------------
(* C29 *)

\* C29: the count store_snapshots_batch returns is the number of rows the batch leaves
\* in the store: the number of distinct natural keys among the rows it wrote, and zero
\* when the final commit failed and nothing was persisted.
C29_CountIsRowsLeft ==
    last.op = "store_snapshots_batch" =>
        last.result =
            IF last.committed
            THEN Cardinality({SnapshotKey(SnapshotValues(last.snaps[i])) :
                                 i \in Executed(last.snaps)})
            ELSE 0

----------------------------------------------------------------------------
(* TradingAlertSystem: notifications.                                      *)

\* signals_today[-10:]
DuplicateWindow == 10

\* 3600 seconds, in minutes
Hour == 60

\* timedelta.seconds, in minutes: the part of the difference below whole days
SecondsOf(later, earlier) == (later - earlier) % MinutesPerDay

\* signals_today[-10:]
Recent(today) == SubSeq(today, Max({1, Len(today) - DuplicateWindow + 1}), Len(today))

\* _is_duplicate: same name and direction and (signal.timestamp - recent.timestamp).seconds
\* < 3600 for one of the last ten signals sent
IsDuplicate(today, signal) ==
    \E i \in 1..Len(Recent(today)) :
        /\ Recent(today)[i].name = signal.name
        /\ Recent(today)[i].direction = signal.direction
        /\ SecondsOf(signal.timestamp, Recent(today)[i].timestamp) < Hour

\* the loop of process_signals from the i-th signal on: (signals_today, what happened to
\* each signal, with signals_today as it was when the signal was looked at); delivered
\* is the set of positions for which send_signal answers True
RECURSIVE ProcessFrom(_, _, _, _, _)
ProcessFrom(today, signals, delivered, i, done) ==
    IF i > Len(signals) THEN <<today, done>>
    ELSE IF IsDuplicate(today, signals[i])
         THEN ProcessFrom(today, signals, delivered, i + 1,
                          Append(done, [outcome |-> "duplicate", seen |-> today]))
    ELSE IF i \in delivered
         THEN ProcessFrom(Append(today, signals[i]), signals, delivered, i + 1,
                          Append(done, [outcome |-> "sent", seen |-> today]))
    ELSE ProcessFrom(today, signals, delivered, i + 1,
                     Append(done, [outcome |-> "failed", seen |-> today]))

ProcessSignals(signals, delivered) ==
    LET res == ProcessFrom(signals_today, signals, delivered, 1, <<>>)
    IN  /\ signals_today' = res[1]
        /\ last' = [op |-> "process_signals", signals |-> signals, done |-> res[2]]
        /\ UNCHANGED <<now, snapshots, averages, earnings>>

\* send_daily_summary: signals_today is reset after the summary was sent; fails is
\* get_quote or the notifier raising, which leaves the list as it is
SendDailySummary(fails) ==
    /\ signals_today' = IF fails THEN signals_today ELSE <<>>
    /\ last' = [op |-> "send_daily_summary", ok |-> ~fails]
    /\ UNCHANGED <<now, snapshots, averages, earnings>>

----------------------------------------------------------------------------
(* Specification of the notifications: signals are detected on a Thursday  *)
(* at 10:00, 10:59 and 11:00 and on the Friday at 10:10; the daily summary *)
(* runs on the Thursday at 16:10.                                          *)

MaxSignals == 2

MaxSent == 3

SummaryTime == 16 * 60 + 10

SignalClock ==
    LET thursday == Weeks(1) + 3 * MinutesPerDay
    IN  <<thursday + 10 * 60, thursday + 10 * 60 + Hour - 1, thursday + 10 * 60 + Hour,
          thursday + SummaryTime, thursday + MinutesPerDay + 10 * 60 + 10>>

SignalKinds == {<<"Ad Sector News", "CALL">>, <<"Ad Sector News", "PUT">>, <<"Company News", "CALL">>}

\* the signals a check can detect now
Detected == {[name |-> k[1], direction |-> k[2], timestamp |-> now] : k \in SignalKinds}

InitSignals ==
    /\ now = SignalClock[1]
    /\ snapshots = {}
    /\ averages = {}
    /\ earnings = {}
    /\ signals_today = <<>>
    /\ last = NoOp

Later ==
    /\ \E i \in 1..(Len(SignalClock) - 1) : now = SignalClock[i] /\ now' = SignalClock[i + 1]
    /\ last' = NoOp
    /\ UNCHANGED <<snapshots, averages, earnings, signals_today>>

Detect ==
    /\ IsTradingDay(now) /\ IsMarketHours(now)
    /\ Len(signals_today) < MaxSent
    /\ last.op # "process_signals"
    /\ \E signals \in SeqsUpTo(Detected, MaxSignals) \ {<<>>} :
          \E delivered \in SUBSET (1..Len(signals)) : ProcessSignals(signals, delivered)

Summary ==
    /\ now % MinutesPerDay = SummaryTime
    /\ last.op # "send_daily_summary"
    /\ \E f \in BOOLEAN : SendDailySummary(f)

NextSignals == Later \/ Detect \/ Summary

SpecSignals == InitSignals /\ [][NextSignals]_vars

----------------------------------------------------------------------------
(* C30 *)

JustProcessed == last.op = "process_signals"

\* the signals of the name and direction of s that had been sent when s was looked at
Predecessors(s, seen) ==
    {i \in 1..Len(seen) : seen[i].name = s.name /\ seen[i].direction = s.direction}

\* C30: process_signals suppresses a signal as a duplicate only if a signal of the same
\* name and direction was sent less than one hour before it; a signal whose most recent
\* predecessor of its name and direction was sent an hour or more earlier, on a previous
\* day included when signals_today was not reset, is not suppressed.
C30_SuppressedOnlyWithinHour ==
    JustProcessed =>
        \A i \in 1..Len(last.signals) :
            LET s == last.signals[i]
                seen == last.done[i].seen
            IN  /\ last.done[i].outcome = "duplicate" =>
                      \E p \in Predecessors(s, seen) :
                          s.timestamp - seen[p].timestamp < Hour
                /\ (\A p \in Predecessors(s, seen) :
                        s.timestamp - seen[p].timestamp >= Hour) =>
                      last.done[i].outcome # "duplicate"

====
